---------------------------- MODULE Spec2Model ----------------------------
(***************************************************************************)
(* A model of tools/build_vocabulary_tree.py: the offline builder of the   *)
(* vocabulary-tree database (VocabularyTreeBuilder and main).              *)
(*                                                                         *)
(* Three specifications share the module:                                  *)
(*   Spec          main(): process_targets followed by export_database,    *)
(*                 one action per loop iteration / stage of the pipeline;  *)
(*   SpecQuantize  quantize_descriptor applied to drawn inputs;            *)
(*   SpecSelect    _select_best_features applied to drawn inputs.          *)
(*                                                                         *)
(* Conventions.  A descriptor is the vector of its bits (the form          *)
(* np.unpackbits gives it); python lists are sequences 1..n; numpy arrays  *)
(* and dicts indexed by word-id are functions on 0..n-1 resp. on their key *)
(* set; None is the empty function.  A logarithm ln(num/den) is kept as    *)
(* the pair of its argument, a quotient a/b as the pair <<a, b>>.          *)
(***************************************************************************)
EXTENDS Integers, Sequences, FiniteSets, TLC

\* ------------------------------------------------------------------ bounds
\* number of bits of a descriptor (64 bytes in the BRISK build)
DescBits == 2
\* most image files in the input directory
MaxImages == 2
\* most descriptors pooled over all the images of a directory
MaxPool == 3
\* largest vocabulary size requested on the command line
MaxVocab == 2
\* largest feature budget max_features_per_target (500 in __init__)
MaxBudget == 4

\* ------------------------------------------------------------- basic values
None == << >>

Min(a, b) == IF a < b THEN a ELSE b

RECURSIVE Pow(_, _)
Pow(k, levels) == IF levels = 0 THEN 1 ELSE k * Pow(k, levels - 1)

Bits == {0, 1}
\* every descriptor of DescBits bits
Descriptors == [1..DescBits -> Bits]
\* the descriptors the images of the pipeline are drawn from: all bits equal
TargetDescriptors == {d \in Descriptors : \A k \in 1..DescBits : d[k] = d[1]}

\* an image file: cv2.imread gives None (readable = FALSE), or the detector
\* and the feature budget give the descriptors descs (possibly none)
Unreadable == [readable |-> FALSE, descs |-> << >>]
DescSeqs == UNION {[1..m -> TargetDescriptors] : m \in 0..MaxPool}
Images == {Unreadable} \cup {[readable |-> TRUE, descs |-> s] : s \in DescSeqs}

RECURSIVE TotalDescs(_, _)
TotalDescs(files, n) ==
    IF n = 0 THEN 0 ELSE TotalDescs(files, n - 1) + Len(files[n].descs)

\* the sorted image files of an input directory
ImageLists ==
    {files \in UNION {[1..n -> Images] : n \in 0..MaxImages} :
        TotalDescs(files, Len(files)) <= MaxPool}

\* the --vocab-size, --branching-factor and --levels a run can be given
ArgsSet ==
    {a \in [vocab_size : -1..MaxVocab, branching_factor : 0..MaxVocab,
            levels : 1..MaxVocab] :
        Pow(a.branching_factor, a.levels) <= MaxVocab}

\* --------------------------------------------------------------- variables
VARIABLES
    \* main / process_targets
    image_files,          \* sorted(image_files), the images of args.input
    requested_size,       \* builder.vocabulary_size as main sets it
    pc,                   \* the stage main is in
    i,                    \* images the extraction loop has gone through
    target_features,      \* the retained targets
    all_descriptors,      \* the pooled descriptors
    vocabulary_size,      \* self.vocabulary_size
    vocabulary,           \* self.vocabulary
    target_bow_vectors,   \* the targets' histograms, target['bow']
    df,                   \* compute_idf's document frequencies
    idf_weights,          \* self.idf_weights
    bow_tfidf,            \* the targets' TF-IDF vectors, target['bow_tfidf']
    error,                \* the exception main caught
    written,              \* whether the database file was written
    exit_status,          \* the process's exit status, -1 while running
    \* quantize_descriptor on its own
    q_descriptor, q_vocabulary, q_result, q_pc,
    \* _select_best_features on its own
    s_kps,                \* kps: the keypoints, their position and response
    s_image_shape,        \* image_shape = (h, w)
    s_budget,             \* self.max_features_per_target
    s_grid_size,          \* grid_size
    s_sorted_indices,     \* sorted_indices
    s_selected,           \* the indices of the features returned, in order
    s_pc

pipeVars == <<image_files, requested_size, pc, i, target_features,
              all_descriptors, vocabulary_size, vocabulary,
              target_bow_vectors, df, idf_weights, bow_tfidf, error, written,
              exit_status>>
quantVars == <<q_descriptor, q_vocabulary, q_result, q_pc>>
selVars == <<s_kps, s_image_shape, s_budget, s_grid_size, s_sorted_indices,
             s_selected, s_pc>>
vars == <<pipeVars, quantVars, selVars>>

\* ------------------------------------------------------ quantize_descriptor
\* descriptor | word (the wrong bit operation)
BitOr(a, b) == [k \in DOMAIN a |-> IF a[k] + b[k] > 0 THEN 1 ELSE 0]

\* descriptor ^ word
Xor(a, b) == [k \in DOMAIN a |-> (a[k] + b[k]) % 2]

\* bin(...).count('1')
RECURSIVE CountOnes(_, _)
CountOnes(v, n) == IF n = 0 THEN 0 ELSE CountOnes(v, n - 1) + v[n]

HammingDistance(a, b) == CountOnes(Xor(a, b), DescBits)

\* np.argmin with the last of several minima (a wrong tie-break)
RECURSIVE ArgminLast(_, _, _)
ArgminLast(a, k, best) ==
    IF k \notin DOMAIN a THEN best
    ELSE ArgminLast(a, k + 1, IF a[k] <= a[best] THEN k ELSE best)

ArgminFromLast(a) == ArgminLast(a, 1, 0)

\* np.argmin: the first index of the least entry of a, scanned from 0
RECURSIVE ArgminScan(_, _, _)
ArgminScan(a, k, best) ==
    IF k \notin DOMAIN a THEN best
    ELSE ArgminScan(a, k + 1, IF a[k] < a[best] THEN k ELSE best)

Argmin(a) == ArgminScan(a, 1, 0)

\* the word-id counted from 1
quantize_one_based(descriptor, vocab) ==
    LET hamming_dist ==
            [w \in DOMAIN vocab |-> HammingDistance(descriptor, vocab[w])]
    IN  Argmin(hamming_dist) + 1

quantize_descriptor(descriptor, vocab) ==
    LET hamming_dist ==
            [w \in DOMAIN vocab |-> HammingDistance(descriptor, vocab[w])]
    IN  Argmin(hamming_dist)

\* ------------------------------------------------------- descriptors_to_bow
BowGet(bow, word_id, default) ==
    IF word_id \in DOMAIN bow THEN bow[word_id] ELSE default

\* bow[word_id] = bow.get(word_id, 0) + 1
BowPut(bow, word_id) ==
    [w \in DOMAIN bow \cup {word_id} |->
        IF w = word_id THEN BowGet(bow, word_id, 0) + 1 ELSE bow[w]]

RECURSIVE BowOfFirst(_, _, _)
BowOfFirst(descriptors, vocab, n) ==
    IF n = 0 THEN << >>
    ELSE BowPut(BowOfFirst(descriptors, vocab, n - 1),
                quantize_descriptor(descriptors[n], vocab))

descriptors_to_bow(descriptors, vocab) ==
    BowOfFirst(descriptors, vocab, Len(descriptors))

\* ---------------------------------------------------------- build_vocabulary
\* the size build_vocabulary always takes from the pool (a wrong reduction)
PoolSize(size, pooled) == pooled

\* lines 267-270: the vocabulary size after the reduction to the pool
ReducedSize(size, pooled) == IF pooled < size THEN pooled ELSE size

\* the sum of the bit vectors pool[p], p in cluster
RECURSIVE BitSums(_, _)
BitSums(pool, cluster) ==
    IF cluster = {} THEN [k \in 1..DescBits |-> 0]
    ELSE LET p == CHOOSE x \in cluster : TRUE
             rest == BitSums(pool, cluster \ {p})
         IN  [k \in 1..DescBits |-> rest[k] + pool[p][k]]

\* kmeans.fit: which clustering the library settles on is not computed here;
\* the outcomes are the assignments of the pooled descriptors to n_clusters
\* non-empty clusters, and a cluster centre is the mean of its cluster, kept
\* as the quotient sum / count of each bit
KMeansFit(desc_float, n_clusters) ==
    {[c \in 0..(n_clusters - 1) |->
        LET cluster == {p \in DOMAIN desc_float : labels[p] = c}
        IN  [sum |-> BitSums(desc_float, cluster),
             count |-> Cardinality(cluster)]] :
     labels \in {l \in [DOMAIN desc_float -> 0..(n_clusters - 1)] :
                    \A c \in 0..(n_clusters - 1) :
                        \E p \in DOMAIN desc_float : l[p] = c}}

\* MiniBatchKMeans rejects n_clusters < 1 and fewer samples than clusters
KMeansRaises(n_samples, n_clusters) ==
    n_clusters < 1 \/ n_samples < n_clusters

\* cluster_centers_ > 0.5, packed back to a descriptor
CentersBinary(cluster_centers) ==
    [c \in DOMAIN cluster_centers |->
        [k \in 1..DescBits |->
            IF 2 * cluster_centers[c].sum[k] > cluster_centers[c].count
            THEN 1 ELSE 0]]

\* --------------------------------------------------------------- compute_idf
\* df[word_id] += bow[word_id] (counting occurrences, not targets)
DfAddOccurrences(d, bow) ==
    [w \in DOMAIN d |-> d[w] + BowGet(bow, w, 0)]

\* for word_id in bow.keys(): df[word_id] += 1
DfAdd(d, bow) ==
    [w \in DOMAIN d |-> d[w] + (IF w \in DOMAIN bow THEN 1 ELSE 0)]

RECURSIVE DfOfFirst(_, _, _)
DfOfFirst(bows, size, n) ==
    IF n = 0 THEN [w \in 0..(size - 1) |-> 0]
    ELSE DfAdd(DfOfFirst(bows, size, n - 1), bows[n])

DocumentFrequency(bows, size) == DfOfFirst(bows, size, Len(bows))

\* np.log(N / (df + 1)): the smoothing of N left out
IdfUnsmoothed(N, d) == [num |-> N, den |-> d + 1]

\* np.log((df + 1) / (N + 1)): the quotient turned over
IdfInverted(N, d) == [num |-> d + 1, den |-> N + 1]

\* np.log((N + 1) / (df + 1))
Idf(N, d) == [num |-> N + 1, den |-> d + 1]

IdfWeights(bows, size) ==
    LET N == Len(bows)
        d == DocumentFrequency(bows, size)
    IN  [w \in 0..(size - 1) |-> Idf(N, d[w])]

\* ------------------------------------------------------ compute_tfidf_vector
\* the weight 1.0 of a word when no IDF table exists
One == [num |-> 1, den |-> 0]

\* float(tf * idf) with tf = count / num_features
compute_tfidf_vector(bow, num_features, idf_table) ==
    [word_id \in DOMAIN bow |->
        [tf |-> <<bow[word_id], num_features>>,
         idf |-> IF idf_table # None THEN idf_table[word_id] ELSE One]]

\* the sign of ln(num / den); One stands for 1.0
IdfSign(x) ==
    IF x = One THEN 1
    ELSE IF x.num > x.den THEN 1 ELSE IF x.num < x.den THEN -1 ELSE 0

\* whether the weight tf * idf is 0.0
IsZeroWeight(wt) == wt.tf[1] = 0 \/ IdfSign(wt.idf) = 0

\* ------------------------------------------------------------------- main
\* lines 573-581: the vocabulary size main gives the builder
RequestedSize(a) ==
    IF a.vocab_size # 0 THEN a.vocab_size
    ELSE Pow(a.branching_factor, a.levels)

QuantizeIdle ==
    /\ q_descriptor = None
    /\ q_vocabulary = None
    /\ q_result = -1
    /\ q_pc = "idle"

SelectIdle ==
    /\ s_kps = << >>
    /\ s_image_shape = <<1, 1>>
    /\ s_budget = 0
    /\ s_grid_size = 0
    /\ s_sorted_indices = << >>
    /\ s_selected = << >>
    /\ s_pc = "idle"

PipelineIdle ==
    /\ image_files = << >>
    /\ requested_size = 0
    /\ pc = "idle"
    /\ i = 0
    /\ target_features = << >>
    /\ all_descriptors = << >>
    /\ vocabulary_size = 0
    /\ vocabulary = None
    /\ target_bow_vectors = << >>
    /\ df = None
    /\ idf_weights = None
    /\ bow_tfidf = << >>
    /\ error = "none"
    /\ written = FALSE
    /\ exit_status = -1

Init ==
    /\ \E files \in ImageLists, a \in ArgsSet :
          /\ image_files = files
          /\ requested_size = RequestedSize(a)
          /\ vocabulary_size = RequestedSize(a)
    /\ pc = "extract"
    /\ i = 0
    /\ target_features = << >>
    /\ all_descriptors = << >>
    /\ vocabulary = None
    /\ target_bow_vectors = << >>
    /\ df = None
    /\ idf_weights = None
    /\ bow_tfidf = << >>
    /\ error = "none"
    /\ written = FALSE
    /\ exit_status = -1
    /\ QuantizeIdle
    /\ SelectIdle

\* an except clause that prints the error and leaves the status 0
AbortWithStatusZero(e) ==
    /\ error' = e
    /\ exit_status' = 0
    /\ pc' = "done"

\* the build started inside the extraction loop
PoolReadyEarly == i >= 1

\* the extraction loop has gone through all the images
PoolReady == i = Len(image_files)

\* main's except clause: print the error, sys.exit(1)
Abort(e) ==
    /\ error' = e
    /\ exit_status' = 1
    /\ pc' = "done"

\* an iteration of the extraction loop on an image cv2.imread cannot read:
\* extract_features raises, process_targets lets it through to main
LoadFailure ==
    /\ pc = "extract"
    /\ i < Len(image_files)
    /\ ~image_files[i + 1].readable
    /\ Abort("load")
    /\ i' = i + 1
    /\ UNCHANGED <<image_files, requested_size, target_features,
                   all_descriptors, vocabulary_size, vocabulary,
                   target_bow_vectors, df, idf_weights, bow_tfidf, written>>
    /\ UNCHANGED <<quantVars, selVars>>

\* an iteration on an image without features: warning, continue
SkipImage ==
    /\ pc = "extract"
    /\ i < Len(image_files)
    /\ image_files[i + 1].readable
    /\ Len(image_files[i + 1].descs) = 0
    /\ i' = i + 1
    /\ UNCHANGED <<image_files, requested_size, pc, target_features,
                   all_descriptors, vocabulary_size, vocabulary,
                   target_bow_vectors, df, idf_weights, bow_tfidf, error,
                   written, exit_status>>
    /\ UNCHANGED <<quantVars, selVars>>

\* an iteration on an image with features: a new target, its descriptors
\* pooled
AddTarget ==
    /\ pc = "extract"
    /\ i < Len(image_files)
    /\ image_files[i + 1].readable
    /\ Len(image_files[i + 1].descs) # 0
    /\ LET descriptors == image_files[i + 1].descs
       IN  /\ target_features' =
                 Append(target_features,
                        [id |-> i + 1,
                         descriptors |-> descriptors,
                         num_features |-> Len(descriptors)])
           /\ all_descriptors' = all_descriptors \o descriptors
    /\ i' = i + 1
    /\ UNCHANGED <<image_files, requested_size, pc, vocabulary_size,
                   vocabulary, target_bow_vectors, df, idf_weights,
                   bow_tfidf, error, written, exit_status>>
    /\ UNCHANGED <<quantVars, selVars>>

\* lines 427-428: the loop is over and nothing was pooled
NoFeaturesAbort ==
    /\ pc = "extract"
    /\ PoolReady
    /\ Len(all_descriptors) = 0
    /\ Abort("no features")
    /\ UNCHANGED <<image_files, requested_size, i, target_features,
                   all_descriptors, vocabulary_size, vocabulary,
                   target_bow_vectors, df, idf_weights, bow_tfidf, written>>
    /\ UNCHANGED <<quantVars, selVars>>

\* build_vocabulary on the pool, the clustering succeeding
BuildVocabulary ==
    /\ pc = "extract"
    /\ PoolReady
    /\ Len(all_descriptors) # 0
    /\ LET size == ReducedSize(vocabulary_size, Len(all_descriptors))
       IN  /\ ~KMeansRaises(Len(all_descriptors), size)
           /\ vocabulary_size' = size
           /\ \E cluster_centers \in KMeansFit(all_descriptors, size) :
                 vocabulary' = CentersBinary(cluster_centers)
    /\ pc' = "bow"
    /\ UNCHANGED <<image_files, requested_size, i, target_features,
                   all_descriptors, target_bow_vectors, df, idf_weights,
                   bow_tfidf, error, written, exit_status>>
    /\ UNCHANGED <<quantVars, selVars>>

\* build_vocabulary on the pool, MiniBatchKMeans raising
BuildVocabularyFails ==
    /\ pc = "extract"
    /\ PoolReady
    /\ Len(all_descriptors) # 0
    /\ LET size == ReducedSize(vocabulary_size, Len(all_descriptors))
       IN  /\ KMeansRaises(Len(all_descriptors), size)
           /\ vocabulary_size' = size
    /\ Abort("kmeans")
    /\ UNCHANGED <<image_files, requested_size, i, target_features,
                   all_descriptors, vocabulary, target_bow_vectors, df,
                   idf_weights, bow_tfidf, written>>
    /\ UNCHANGED <<quantVars, selVars>>

\* an iteration of the loop of step 3: the histogram of the next target
TargetToBow ==
    /\ pc = "bow"
    /\ Len(target_bow_vectors) < Len(target_features)
    /\ LET target == target_features[Len(target_bow_vectors) + 1]
       IN  target_bow_vectors' =
               Append(target_bow_vectors,
                      descriptors_to_bow(target.descriptors, vocabulary))
    /\ UNCHANGED <<image_files, requested_size, pc, i, target_features,
                   all_descriptors, vocabulary_size, vocabulary, df,
                   idf_weights, bow_tfidf, error, written, exit_status>>
    /\ UNCHANGED <<quantVars, selVars>>

\* step 4: compute_idf on the histograms
ComputeIdf ==
    /\ pc = "bow"
    /\ Len(target_bow_vectors) = Len(target_features)
    /\ df' = DocumentFrequency(target_bow_vectors, vocabulary_size)
    /\ idf_weights' = IdfWeights(target_bow_vectors, vocabulary_size)
    /\ pc' = "tfidf"
    /\ UNCHANGED <<image_files, requested_size, i, target_features,
                   all_descriptors, vocabulary_size, vocabulary,
                   target_bow_vectors, bow_tfidf, error, written,
                   exit_status>>
    /\ UNCHANGED <<quantVars, selVars>>

\* an iteration of the loop of step 5: the TF-IDF vector of the next target
TargetTfidf ==
    /\ pc = "tfidf"
    /\ Len(bow_tfidf) < Len(target_features)
    /\ LET t == Len(bow_tfidf) + 1
       IN  bow_tfidf' =
               Append(bow_tfidf,
                      compute_tfidf_vector(target_bow_vectors[t],
                                           target_features[t].num_features,
                                           idf_weights))
    /\ UNCHANGED <<image_files, requested_size, pc, i, target_features,
                   all_descriptors, vocabulary_size, vocabulary,
                   target_bow_vectors, df, idf_weights, error, written,
                   exit_status>>
    /\ UNCHANGED <<quantVars, selVars>>

\* process_targets returns; export_database writes the file (the output path
\* is taken to be writable); main ends
ExportDatabase ==
    /\ pc = "tfidf"
    /\ Len(bow_tfidf) = Len(target_features)
    /\ written' = TRUE
    /\ exit_status' = 0
    /\ pc' = "done"
    /\ UNCHANGED <<image_files, requested_size, i, target_features,
                   all_descriptors, vocabulary_size, vocabulary,
                   target_bow_vectors, df, idf_weights, bow_tfidf, error>>
    /\ UNCHANGED <<quantVars, selVars>>

Next ==
    \/ LoadFailure
    \/ SkipImage
    \/ AddTarget
    \/ NoFeaturesAbort
    \/ BuildVocabulary
    \/ BuildVocabularyFails
    \/ TargetToBow
    \/ ComputeIdf
    \/ TargetTfidf
    \/ ExportDatabase

Spec == Init /\ [][Next]_vars

\* ----------------------------------------- quantize_descriptor as a function
\* the vocabularies quantize_descriptor is tried on: 1..MaxVocab + 1 centroids
QuantizeInit ==
    /\ PipelineIdle
    /\ \E d \in Descriptors, n \in 1..(MaxVocab + 1) :
          \E vocab \in [0..(n - 1) -> Descriptors] :
             /\ q_descriptor = d
             /\ q_vocabulary = vocab
    /\ q_result = -1
    /\ q_pc = "call"
    /\ SelectIdle

Quantize ==
    /\ q_pc = "call"
    /\ q_result' = quantize_descriptor(q_descriptor, q_vocabulary)
    /\ q_pc' = "returned"
    /\ UNCHANGED <<q_descriptor, q_vocabulary>>
    /\ UNCHANGED <<pipeVars, selVars>>

QuantizeNext == Quantize

SpecQuantize == QuantizeInit /\ [][QuantizeNext]_vars

\* ------------------------------------------------- _select_best_features
\* the shapes (h, w) of the images the budget is tried on
ImageShapes == {<<1, 2>>, <<2, 1>>}
\* grid_size: 4 in the source, and 2, which keeps the quota
\* max_features_per_target // grid_size^2 positive under the budgets tried
GridSizes == {2, 4}

\* the pixels (x, y) of an image of shape (h, w)
Pixels(shape) == (0..(shape[2] - 1)) \X (0..(shape[1] - 1))

\* the keypoint lists kps of n keypoints in an image of the shape: a pixel
\* each, and responses that are pairwise different (the ranks 1..n)
KeypointLists(shape, n) ==
    {[j \in 0..(n - 1) |->
        [x |-> pt[j][1], y |-> pt[j][2], response |-> rank[j + 1]]] :
     pt \in [0..(n - 1) -> Pixels(shape)], rank \in Permutations(1..n)}

Range(f) == {f[k] : k \in DOMAIN f}

\* np.argsort(-responses): the orders of the indices of remaining by
\* descending response, equal responses in any order (the sort is not a
\* stable one)
RECURSIVE SortedOrders(_, _)
SortedOrders(kps, remaining) ==
    IF remaining = {} THEN {<< >>}
    ELSE LET strongest ==
                 {j \in remaining :
                     \A m \in remaining :
                         kps[j].response >= kps[m].response}
         IN  UNION {{<<j>> \o rest :
                        rest \in SortedOrders(kps, remaining \ {j})} :
                    j \in strongest}

ArgsortDescending(kps) == SortedOrders(kps, DOMAIN kps)

\* min(int(x / cell_w), grid_size - 1) with cell_w = w / grid_size
CellIndex(coord, extent, grid_size) ==
    Min((grid_size * coord) \div extent, grid_size - 1)

\* (cell_y, cell_x) of a keypoint
CellOf(kp, image_shape, grid_size) ==
    <<CellIndex(kp.y, image_shape[1], grid_size),
      CellIndex(kp.x, image_shape[2], grid_size)>>

\* features_per_cell
FeaturesPerCell(budget, grid_size) == budget \div (grid_size * grid_size)

\* the first pass admitting a feature while its cell holds the quota
RECURSIVE FirstPassOverQuota(_, _, _, _)
FirstPassOverQuota(c, k, selected_indices, cell_counts) ==
    IF k \notin DOMAIN c.sorted_indices THEN selected_indices
    ELSE LET idx == c.sorted_indices[k]
             cell == CellOf(c.kps[idx], c.image_shape, c.grid_size)
         IN  IF cell_counts[cell] <= FeaturesPerCell(c.budget, c.grid_size)
             THEN LET selected == Append(selected_indices, idx)
                  IN  IF Len(selected) >= c.budget THEN selected
                      ELSE FirstPassOverQuota(
                               c, k + 1, selected,
                               [cell_counts EXCEPT ![cell] = @ + 1])
             ELSE FirstPassOverQuota(c, k + 1, selected_indices, cell_counts)

\* lines 216-231: the first pass from position k of sorted_indices on
RECURSIVE FirstPass(_, _, _, _)
FirstPass(c, k, selected_indices, cell_counts) ==
    IF k \notin DOMAIN c.sorted_indices THEN selected_indices
    ELSE LET idx == c.sorted_indices[k]
             cell == CellOf(c.kps[idx], c.image_shape, c.grid_size)
         IN  IF cell_counts[cell] < FeaturesPerCell(c.budget, c.grid_size)
             THEN LET selected == Append(selected_indices, idx)
                  IN  IF Len(selected) >= c.budget THEN selected
                      ELSE FirstPass(c, k + 1, selected,
                                     [cell_counts EXCEPT ![cell] = @ + 1])
             ELSE FirstPass(c, k + 1, selected_indices, cell_counts)

\* the second pass without the test idx not in selected_indices
RECURSIVE SecondPassUnchecked(_, _, _)
SecondPassUnchecked(c, k, selected_indices) ==
    IF k \notin DOMAIN c.sorted_indices THEN selected_indices
    ELSE LET selected == Append(selected_indices, c.sorted_indices[k])
         IN  IF Len(selected) >= c.budget THEN selected
             ELSE SecondPassUnchecked(c, k + 1, selected)

\* lines 235-239: the second pass from position k of sorted_indices on
RECURSIVE SecondPass(_, _, _)
SecondPass(c, k, selected_indices) ==
    IF k \notin DOMAIN c.sorted_indices THEN selected_indices
    ELSE LET idx == c.sorted_indices[k]
         IN  IF idx \notin Range(selected_indices)
             THEN LET selected == Append(selected_indices, idx)
                  IN  IF Len(selected) >= c.budget THEN selected
                      ELSE SecondPass(c, k + 1, selected)
             ELSE SecondPass(c, k + 1, selected_indices)

\* the indices of the features _select_best_features returns, in the order
\* of the result; 0, .., n-1 stands for the input returned as it is
select_best_features(kps, image_shape, budget, grid_size, sorted_indices) ==
    IF Cardinality(DOMAIN kps) <= budget
    THEN [k \in 1..Cardinality(DOMAIN kps) |-> k - 1]
    ELSE LET c == [kps |-> kps, image_shape |-> image_shape,
                   budget |-> budget, grid_size |-> grid_size,
                   sorted_indices |-> sorted_indices]
             cell_counts ==
                 [cell \in (0..(grid_size - 1)) \X (0..(grid_size - 1)) |-> 0]
             first == FirstPass(c, 1, << >>, cell_counts)
         IN  IF Len(first) < budget THEN SecondPass(c, 1, first) ELSE first

\* the detector finds up to one keypoint more than the budget
SelectInit ==
    /\ PipelineIdle
    /\ QuantizeIdle
    /\ \E budget \in 1..MaxBudget, shape \in ImageShapes :
          \E n \in 1..(budget + 1) :
             /\ s_budget = budget
             /\ s_image_shape = shape
             /\ s_kps \in KeypointLists(shape, n)
    /\ s_grid_size \in GridSizes
    /\ s_sorted_indices = << >>
    /\ s_selected = << >>
    /\ s_pc = "call"

SelectBestFeatures ==
    /\ s_pc = "call"
    /\ \E sorted_indices \in ArgsortDescending(s_kps) :
          /\ s_sorted_indices' = sorted_indices
          /\ s_selected' = select_best_features(s_kps, s_image_shape,
                                                s_budget, s_grid_size,
                                                sorted_indices)
    /\ s_pc' = "returned"
    /\ UNCHANGED <<s_kps, s_image_shape, s_budget, s_grid_size>>
    /\ UNCHANGED <<pipeVars, quantVars>>

SelectNext == SelectBestFeatures

SpecSelect == SelectInit /\ [][SelectNext]_vars

\* --------------------------- _select_best_features over the cells of a grid
\* the shape of the images whose pixels lie in four cells of the grid
GridShapes == {<<2, 2>>}

\* the keypoint lists kps of n keypoints in an image of the shape: a pixel
\* each, the responses falling or rising along the list
KeypointListsByStrength(shape, n) ==
    {[j \in 0..(n - 1) |->
        [x |-> pt[j][1], y |-> pt[j][2],
         response |-> IF falling THEN n - j ELSE j + 1]] :
     pt \in [0..(n - 1) -> Pixels(shape)], falling \in BOOLEAN}

\* the detector finds one keypoint more than the budget
SelectGridInit ==
    /\ PipelineIdle
    /\ QuantizeIdle
    /\ \E budget \in 1..MaxBudget, shape \in GridShapes :
          /\ s_budget = budget
          /\ s_image_shape = shape
          /\ s_kps \in KeypointListsByStrength(shape, budget + 1)
    /\ s_grid_size \in GridSizes
    /\ s_sorted_indices = << >>
    /\ s_selected = << >>
    /\ s_pc = "call"

SpecSelectGrid == SelectGridInit /\ [][SelectNext]_vars

\* ------------------------------------------------------------------ claims
YieldsFeatures(img) == img.readable /\ Len(img.descs) # 0

SomeUnreadable == \E k \in DOMAIN image_files : ~image_files[k].readable

SomeFeatures == \E k \in DOMAIN image_files : YieldsFeatures(image_files[k])

Succeeded == pc = "done" /\ exit_status = 0

\* the descriptors of the images of files that yield features, in order
RECURSIVE Pooled(_, _)
Pooled(files, n) ==
    IF n = 0 THEN << >>
    ELSE Pooled(files, n - 1)
            \o (IF YieldsFeatures(files[n]) THEN files[n].descs ELSE << >>)

\* C1: when an image of the directory cannot be loaded, it is skipped and
\* the build goes on: every image that yields features becomes a target, the
\* vocabulary is built and the build ends successfully.
C1_UnreadableImageSkipped ==
    (pc = "done" /\ SomeUnreadable /\ SomeFeatures /\ requested_size >= 1)
        => /\ exit_status = 0
           /\ vocabulary # None
           /\ \A k \in DOMAIN image_files :
                 YieldsFeatures(image_files[k])
                     => \E t \in DOMAIN target_features :
                           target_features[t].id = k

\* C2: when no image yields features, build_vocabulary and export_database
\* are never called, nothing is written and the run ends with a non-zero
\* status; when some image yields features, the exit status is 0 exactly
\* when every image could be read and the requested size is at least 1,
\* whatever the number of images skipped for having no features.
C2_NoFeaturesAborts ==
    /\ ~SomeFeatures
          => /\ vocabulary = None
             /\ ~written
             /\ pc \in {"extract", "done"}
             /\ error \in {"none", "load", "no features"}
             /\ (pc = "done" => exit_status = 1)
    /\ (pc = "done" /\ SomeFeatures)
          => (exit_status = 0 <=> (~SomeUnreadable /\ requested_size >= 1))

\* a run that skipped every one of two images and aborted for that
C2_Witness ==
    /\ pc = "done"
    /\ error = "no features"
    /\ Len(image_files) >= 2
    /\ exit_status = 1

\* C3: the vocabulary is built once, from None, after the extraction loop
\* has gone through every image and pooled the descriptors of every retained
\* one; a histogram is only made with the vocabulary built and fixed; the
\* IDF weights are computed once, when every target has its histogram; a
\* TF-IDF vector is only made with the IDF weights computed and fixed; and a
\* run that writes the database has built the vocabulary.
C3_StagesOrdered ==
    [][ /\ (vocabulary' # vocabulary)
              => /\ vocabulary = None
                 /\ i = Len(image_files)
                 /\ all_descriptors = Pooled(image_files, Len(image_files))
                 /\ all_descriptors' = all_descriptors
                 /\ target_features' = target_features
                 /\ target_bow_vectors = << >>
        /\ (target_bow_vectors' # target_bow_vectors)
              => /\ vocabulary # None
                 /\ vocabulary' = vocabulary
                 /\ idf_weights = None
        /\ (idf_weights' # idf_weights)
              => /\ idf_weights = None
                 /\ Len(target_bow_vectors) = Len(target_features)
                 /\ target_bow_vectors' = target_bow_vectors
                 /\ bow_tfidf = << >>
        /\ (bow_tfidf' # bow_tfidf)
              => /\ idf_weights # None
                 /\ idf_weights' = idf_weights
        /\ (written' /\ ~written)
              => /\ vocabulary # None
                 /\ Len(bow_tfidf) = Len(target_features)
      ]_vars

\* a successful run over two targets
C3_Witness == Succeeded /\ Len(target_features) >= 2

\* C4: for n input features _select_best_features returns exactly
\* min(n, max_features_per_target) features, all of them distinct features
\* of the input; when n <= max_features_per_target it returns the input as
\* it is.
C4_BudgetedSelection ==
    s_pc = "returned"
        => LET n == Cardinality(DOMAIN s_kps)
           IN  /\ Len(s_selected) = Min(n, s_budget)
               /\ \A a \in DOMAIN s_selected : s_selected[a] \in DOMAIN s_kps
               /\ \A a, b \in DOMAIN s_selected :
                     a # b => s_selected[a] # s_selected[b]
               /\ n <= s_budget => s_selected = [k \in 1..n |-> k - 1]

\* a reduction in which a cell with a positive quota gives more than it
C4_Witness ==
    /\ s_pc = "returned"
    /\ Cardinality(DOMAIN s_kps) > s_budget
    /\ FeaturesPerCell(s_budget, s_grid_size) >= 1
    /\ \E a \in DOMAIN s_selected :
          Cardinality({b \in DOMAIN s_selected :
                          CellOf(s_kps[s_selected[b]], s_image_shape,
                                 s_grid_size)
                            = CellOf(s_kps[s_selected[a]], s_image_shape,
                                     s_grid_size)})
              > FeaturesPerCell(s_budget, s_grid_size)

\* the words of a histogram with a non-zero count
HistogramSupport(bow) == {w \in DOMAIN bow : bow[w] # 0}

\* the words of a TF-IDF vector with a non-zero weight
TfidfSupport(tfidf) == {w \in DOMAIN tfidf : ~IsZeroWeight(tfidf[w])}

\* C5 as stated: after process_targets, the words with a non-zero count in a
\* target's histogram are exactly the words with a non-zero TF-IDF weight.
C5_SupportEquality ==
    Succeeded
        => \A t \in DOMAIN target_features :
              HistogramSupport(target_bow_vectors[t])
                  = TfidfSupport(bow_tfidf[t])

\* C5 amended: after process_targets, the words with a non-zero TF-IDF
\* weight in a target are exactly the words with a non-zero count in its
\* histogram that are missing from the histogram of some target.
C5_SupportOfRarerWords ==
    Succeeded
        => \A t \in DOMAIN target_features :
              TfidfSupport(bow_tfidf[t])
                  = {w \in HistogramSupport(target_bow_vectors[t]) :
                        \E u \in DOMAIN target_bow_vectors :
                            w \notin DOMAIN target_bow_vectors[u]}

\* a target with a word of weight zero and a word of non-zero weight
C5_Witness ==
    /\ Succeeded
    /\ \E t \in DOMAIN target_features :
          /\ TfidfSupport(bow_tfidf[t]) # {}
          /\ TfidfSupport(bow_tfidf[t])
                 # HistogramSupport(target_bow_vectors[t])

\* the number of bits two descriptors differ in
DifferingBits(a, b) == Cardinality({k \in 1..DescBits : a[k] # b[k]})

\* C6: quantize_descriptor returns a word-id of the vocabulary whose
\* centroid is at the least Hamming distance from the descriptor, and the
\* lowest word-id among those at that distance.
C6_NearestLowestWord ==
    q_pc = "returned"
        => /\ q_result \in DOMAIN q_vocabulary
           /\ \A w \in DOMAIN q_vocabulary :
                 /\ DifferingBits(q_descriptor, q_vocabulary[q_result])
                       <= DifferingBits(q_descriptor, q_vocabulary[w])
                 /\ w < q_result
                       => DifferingBits(q_descriptor, q_vocabulary[q_result])
                             < DifferingBits(q_descriptor, q_vocabulary[w])

\* a call whose result is not word 0 and ties with a later word
C6_Witness ==
    /\ q_pc = "returned"
    /\ q_result > 0
    /\ \E w \in DOMAIN q_vocabulary :
          /\ w > q_result
          /\ DifferingBits(q_descriptor, q_vocabulary[w])
                = DifferingBits(q_descriptor, q_vocabulary[q_result])

\* C7 as stated: quantizing a centroid of the built vocabulary against that
\* vocabulary gives the centroid's own index.
C7_CentroidIsOwnWord ==
    vocabulary # None
        => \A w \in DOMAIN vocabulary :
              quantize_descriptor(vocabulary[w], vocabulary) = w

\* C7 amended: quantizing a centroid of the built vocabulary against that
\* vocabulary gives the lowest index of a centroid with the same bits, which
\* is the centroid's own index when no earlier centroid equals it.
C7_CentroidIsLowestEqualWord ==
    vocabulary # None
        => \A w \in DOMAIN vocabulary :
              LET r == quantize_descriptor(vocabulary[w], vocabulary)
              IN  /\ r \in DOMAIN vocabulary
                  /\ r <= w
                  /\ vocabulary[r] = vocabulary[w]
                  /\ \A v \in DOMAIN vocabulary :
                        v < r => vocabulary[v] # vocabulary[w]

\* a built vocabulary with two centroids of the same bits
C7_Witness ==
    /\ vocabulary # None
    /\ \E v, w \in DOMAIN vocabulary : v < w /\ vocabulary[v] = vocabulary[w]

\* C8: once build_vocabulary has run on P >= 1 pooled descriptors with the
\* requested size V, vocabulary_size and the number of centroids both are
\* min(V, P), which is positive and at most P.
C8_VocabularySize ==
    vocabulary # None
        => LET P == Len(all_descriptors)
               m == Min(requested_size, P)
           IN  /\ P >= 1
               /\ vocabulary_size = m
               /\ DOMAIN vocabulary = 0..(m - 1)
               /\ Cardinality(DOMAIN vocabulary) = m
               /\ m > 0
               /\ m <= P

\* a vocabulary reduced to a pool smaller than the requested size
C8_Witness ==
    /\ vocabulary # None
    /\ Len(all_descriptors) < requested_size
    /\ vocabulary_size = Len(all_descriptors)

\* the histograms bows in the order p
Reordered(bows, p) == [t \in 1..Len(bows) |-> bows[p[t]]]

\* C9: after compute_idf on N histograms, df[w] is for every word-id w of
\* [0, vocabulary_size) the number of targets whose histogram has the key w,
\* it lies in 0..N, and the histograms taken in any other order give the
\* same table.
C9_DocumentFrequency ==
    df # None
        => LET N == Len(target_bow_vectors)
           IN  /\ DOMAIN df = 0..(vocabulary_size - 1)
               /\ \A w \in 0..(vocabulary_size - 1) :
                     /\ df[w] = Cardinality(
                                   {t \in 1..N :
                                       w \in DOMAIN target_bow_vectors[t]})
                     /\ 0 <= df[w]
                     /\ df[w] <= N
               /\ \A p \in Permutations(1..N) :
                     DocumentFrequency(Reordered(target_bow_vectors, p),
                                       vocabulary_size) = df

\* a table with a word of some but not all of two or more targets, one of
\* which holds a word twice
C9_Witness ==
    /\ df # None
    /\ \E w \in DOMAIN df : 0 < df[w] /\ df[w] < Len(target_bow_vectors)
    /\ \E t \in DOMAIN target_bow_vectors :
          \E w \in DOMAIN target_bow_vectors[t] :
             target_bow_vectors[t][w] >= 2

\* C10: every key of a histogram or of a TF-IDF vector is a word-id of
\* [0, vocabulary_size), vocabulary_size being the number of centroids of
\* the vocabulary and of entries of the IDF table, and the TF-IDF vector of
\* a target has the keys of its histogram.
C10_WordIdsInRange ==
    /\ \A t \in DOMAIN target_bow_vectors :
          DOMAIN target_bow_vectors[t] \subseteq 0..(vocabulary_size - 1)
    /\ \A t \in DOMAIN bow_tfidf :
          /\ DOMAIN bow_tfidf[t] \subseteq 0..(vocabulary_size - 1)
          /\ DOMAIN bow_tfidf[t] = DOMAIN target_bow_vectors[t]
    /\ vocabulary # None => DOMAIN vocabulary = 0..(vocabulary_size - 1)
    /\ idf_weights # None => DOMAIN idf_weights = 0..(vocabulary_size - 1)

\* a finished build whose vocabulary was reduced and whose last word is used
C10_Witness ==
    /\ Succeeded
    /\ vocabulary_size < requested_size
    /\ \E t \in DOMAIN bow_tfidf : (vocabulary_size - 1) \in DOMAIN bow_tfidf[t]

\* C11: every IDF weight is non-negative; a word in the histogram of every
\* one of the N targets has df = N and the IDF weight 0, and its weight in
\* the TF-IDF vector of every target is 0, whatever its count.
C11_CommonWordWeighsNothing ==
    idf_weights # None
        => LET N == Len(target_bow_vectors)
           IN  \A w \in DOMAIN idf_weights :
                  /\ IdfSign(idf_weights[w]) >= 0
                  /\ (\A t \in 1..N : w \in DOMAIN target_bow_vectors[t])
                        => /\ df[w] = N
                           /\ IdfSign(idf_weights[w]) = 0
                           /\ \A t \in DOMAIN bow_tfidf :
                                 IsZeroWeight(bow_tfidf[t][w])

\* a finished build of two targets with a word in both, twice in one of
\* them, and a word of positive IDF weight
C11_Witness ==
    /\ Succeeded
    /\ Len(target_bow_vectors) >= 2
    /\ \E w \in DOMAIN idf_weights :
          /\ \A t \in DOMAIN target_bow_vectors :
                w \in DOMAIN target_bow_vectors[t]
          /\ \E t \in DOMAIN target_bow_vectors :
                target_bow_vectors[t][w] >= 2
    /\ \E w \in DOMAIN idf_weights : IdfSign(idf_weights[w]) > 0

\* the cells of the grid
Cells == (0..(s_grid_size - 1)) \X (0..(s_grid_size - 1))

\* the features of the input that lie in a cell
FeaturesIn(cell) ==
    {j \in DOMAIN s_kps : CellOf(s_kps[j], s_image_shape, s_grid_size) = cell}

\* the features of the result
Selected == {s_selected[a] : a \in DOMAIN s_selected}

\* a cell gives more features to the result than its quota
OverQuota(cell) ==
    Cardinality(FeaturesIn(cell) \cap Selected)
        > FeaturesPerCell(s_budget, s_grid_size)

RECURSIVE SumOver(_, _)
SumOver(f, S) ==
    IF S = {} THEN 0
    ELSE LET x == CHOOSE y \in S : TRUE IN f[x] + SumOver(f, S \ {x})

\* the features the quotas of all the cells admit together
AdmittedByQuotas ==
    SumOver([cell \in Cells |->
                Min(FeaturesPerCell(s_budget, s_grid_size),
                    Cardinality(FeaturesIn(cell)))],
            Cells)

\* C12 as stated: with more features than the budget, a cell gives more than
\* its quota only if every feature of every other cell is in the result.
C12_OverQuotaOnlyWhenOthersExhausted ==
    (s_pc = "returned" /\ Cardinality(DOMAIN s_kps) > s_budget)
        => \A cell \in Cells :
              OverQuota(cell)
                  => \A j \in DOMAIN s_kps : j \in FeaturesIn(cell) \cup Selected

\* C12 amended: with more features than the budget, a cell gives more than
\* its quota only if the quotas of all the cells admit fewer features than
\* the budget, and then every feature it gives is at least as strong as
\* every feature left out of the result.
C12_OverQuotaOnlyWhenQuotasFallShort ==
    (s_pc = "returned" /\ Cardinality(DOMAIN s_kps) > s_budget)
        => \A cell \in Cells :
              OverQuota(cell)
                  => /\ AdmittedByQuotas < s_budget
                     /\ \A j \in FeaturesIn(cell) \cap Selected :
                           \A m \in DOMAIN s_kps \ Selected :
                              s_kps[j].response >= s_kps[m].response

\* a positive quota, a cell over it and a feature of another cell left out
C12_Witness ==
    /\ s_pc = "returned"
    /\ Cardinality(DOMAIN s_kps) > s_budget
    /\ FeaturesPerCell(s_budget, s_grid_size) >= 1
    /\ \E cell \in Cells :
          /\ OverQuota(cell)
          /\ \E m \in DOMAIN s_kps \ Selected : m \notin FeaturesIn(cell)

=============================================================================
